---------------------------- MODULE Spec2Model ----------------------------
(***************************************************************************)
(* A model of spacy/_ml.py: the vector-linking utility, the weight-shared  *)
(* projection layer PrecomputableAffine, the flatten layers, get_col,      *)
(* build_tagger_model and the masked-language-model wrapper with its       *)
(* random-word sampler.                                                    *)
(*                                                                         *)
(* Each component has its own variables and its own specification          *)
(* (SpecLink, SpecPA, ...); a specification leaves the variables of the    *)
(* other components at their idle values.  Arrays are sequences (1-based); *)
(* a numpy index i >= 0 is position i + 1.  Floating-point values are      *)
(* modelled by integers; random draws are nondeterministic choices.        *)
(***************************************************************************)
EXTENDS Integers, Sequences, FiniteSets, TLC

VARIABLES
    \* ---- vocabulary, vector table and registry (link_vectors_to_models)
    vec_name,       \* vocab.vectors.name: NoName (Python None) or a string
    vec_size,       \* vocab.vectors.data.size
    key2row,        \* vocab.vectors.key2row: orth -> row, on a subset of Orths
    lex_rank,       \* lexeme.rank of every lexeme of the vocabulary
    VECTORS,        \* thinc.extra.load_nlp.VECTORS: set of (device, name) keys
    link_warned,    \* the "Unnamed vectors" warning was printed by the last call
    link_calls,     \* number of link_vectors_to_models calls made
    link_assigns,   \* number of those calls that assigned vectors.name
    link_pre,       \* ranks just before the most recent call
    \* ---- get_col
    gc_pc,          \* "none" | "raised" | "made" | "fwd" | "fwd_raised" | "bwd"
    gc_arg,         \* the idx argument of the last get_col call
    gc_err,         \* "none" | "E066" (get_col's IndexError) | "numpy" (index out of bounds)
    gc_idx,         \* idx captured by the layer's closures
    gc_X,           \* the 2-D array given to forward: [ops, data: sequence of rows]
    gc_out,         \* forward's output column
    gc_dX,          \* backward's result
    \* ---- flatten / _flatten_add_lengths
    fl_pc,          \* "none" | "fwd" | "bwd"
    fl_layer,       \* "flatten" | "_flatten_add_lengths"
    fl_seqs,        \* the batch given to the layer
    fl_pad,         \* pad captured by finish_update
    fl_lengths,     \* lengths captured by finish_update
    fl_X,           \* the flattened array
    fl_dX,          \* the flat gradient given to finish_update
    fl_out,         \* finish_update's result
    \* ---- Tok2Vec / build_tagger_model
    tg_env,         \* environment overrides read by util.env_opt
    tg_encoders,    \* the encoder a caller has built with Tok2Vec, if any
    tg_cfg,         \* cfg of the last build_tagger_model call
    tg_model,       \* the model it returned
    \* ---- PrecomputableAffine
    pa_W, pa_b, pa_pad,         \* parameters W (nF,nO,nP,nI), b (nO,nP), pad (1,nF,nO,nP)
    pa_dW, pa_db, pa_dpad,      \* their gradients
    pa_pc,          \* "new" | "fwd" | "bwd"
    pa_X,           \* the input captured by backward
    pa_Y,           \* begin_update's output Yf (pad row prepended)
    pa_dY, pa_ids,  \* arguments of the last backward call
    pa_dXf,         \* its result
    pa_pre,         \* d_pad just before the last backward call
    pa_ninit,       \* init_weights calls made
    pa_initmods,    \* init_weights calls that modified W or b
    pa_nback,       \* backward calls made
    \* ---- _RandomWords
    vocab,          \* the vocabulary: sequence of lexemes [text, prob]
    rw_words, rw_probs, rw_cache,
    rw_out,         \* the word returned by the last next() call
    rw_err,         \* "none" or the exception the last next() call raised
    rw_calls,       \* next() calls made
    rw_refills,     \* cache refills made
    \* ---- masked_language_model
    mlm_pc,         \* "idle" | "fwd" | "fwd_raised" | "bwd"
    mlm_docs,       \* docs given to mlm_forward
    mlm_draws,      \* the uniform draws of _apply_mask, one per token
    mlm_mask,       \* mask returned by _apply_mask
    mlm_masked,     \* documents given to the wrapped model
    mlm_rolls,      \* the roll _replace_word drew for each token, NoRoll if none
    mlm_dout,       \* gradient given to mlm_backward
    mlm_bpin,       \* gradient mlm_backward gave to the wrapped model's backward
    \* ---- reapply
    rp_layer,       \* the layer given to reapply
    rp_n,           \* n_times
    rp_pc,          \* "idle" | "fwd" | "fwd_raised" | "bwd"
    rp_X,           \* input of the last reapply_fwd
    rp_Y,           \* output of the last reapply_fwd
    rp_fwdlog,      \* the layer.begin_update calls of the last reapply_fwd: [x, y]
    rp_backprops,   \* the list backprops after the last reapply_fwd
    rp_dY,          \* gradient given to the last reapply_bwd
    rp_bwdlog,      \* the backprop calls of the last reapply_bwd: [app, arg, result]
    rp_heap,        \* the arrays after the last reapply_bwd, the caller's first
    rp_dX           \* gradient the last reapply_bwd returned

linkVars == <<vec_name, vec_size, key2row, lex_rank, VECTORS, link_warned,
              link_calls, link_assigns, link_pre>>
gcVars == <<gc_pc, gc_arg, gc_err, gc_idx, gc_X, gc_out, gc_dX>>
flVars == <<fl_pc, fl_layer, fl_seqs, fl_pad, fl_lengths, fl_X, fl_dX, fl_out>>
tgVars == <<tg_env, tg_encoders, tg_cfg, tg_model>>
paVars == <<pa_W, pa_b, pa_pad, pa_dW, pa_db, pa_dpad, pa_pc, pa_X, pa_Y,
            pa_dY, pa_ids, pa_dXf, pa_pre, pa_ninit, pa_initmods, pa_nback>>
rwVars == <<vocab, rw_words, rw_probs, rw_cache, rw_out, rw_err, rw_calls, rw_refills>>
mlmVars == <<mlm_pc, mlm_docs, mlm_draws, mlm_mask, mlm_masked, mlm_rolls, mlm_dout, mlm_bpin>>

rpVars == <<rp_layer, rp_n, rp_pc, rp_X, rp_Y, rp_fwdlog, rp_backprops, rp_dY,
           rp_bwdlog, rp_heap, rp_dX>>

vars == <<linkVars, gcVars, flVars, tgVars, paVars, rwVars, mlmVars, rpVars>>

\* What the actions of one component leave alone.
notLink == <<gcVars, flVars, tgVars, paVars, rwVars, mlmVars, rpVars>>
notGC == <<linkVars, flVars, tgVars, paVars, rwVars, mlmVars, rpVars>>
notFL == <<linkVars, gcVars, tgVars, paVars, rwVars, mlmVars, rpVars>>
notTG == <<linkVars, gcVars, flVars, paVars, rwVars, mlmVars, rpVars>>
notPA == <<linkVars, gcVars, flVars, tgVars, rwVars, mlmVars, rpVars>>
notRW == <<linkVars, gcVars, flVars, tgVars, paVars, mlmVars, rpVars>>
notMLM == <<linkVars, gcVars, flVars, tgVars, paVars, rpVars>>
notRP == <<linkVars, gcVars, flVars, tgVars, paVars, rwVars, mlmVars>>

---------------------------------------------------------------------------
(* Small helpers.                                                          *)

Range(f) == {f[x] : x \in DOMAIN f}

RECURSIVE SumSeq(_)
SumSeq(s) == IF s = <<>> THEN 0 ELSE s[1] + SumSeq(Tail(s))

---------------------------------------------------------------------------
(* link_vectors_to_models                                                  *)

NumLex == 2          \* lexemes have orth identifiers 1..NumLex
MaxRow == 2          \* rows of the vector table are 0..MaxRow
MaxLinkCalls == 3    \* linking calls in one run

Orths == 1..NumLex
Rows == 0..MaxRow

NoName == "<None>"
VECTORS_KEY == "spacy_pretrained_vectors"
CallerNames == {"en_core.vectors", "other.vectors"}

\* The name the vector table has after the "if vectors.name is None" block.
LinkName_Always(name) == VECTORS_KEY
LinkName(name) == IF name = NoName THEN VECTORS_KEY ELSE name

\* The rank the loop gives the lexeme with identifier orth.
LinkRank_KeepsOrth(orth, k2r) == IF orth \in DOMAIN k2r THEN k2r[orth] ELSE orth
LinkRank(orth, k2r) == IF orth \in DOMAIN k2r THEN k2r[orth] ELSE 0

LinkInit ==
    /\ vec_name \in {NoName} \cup CallerNames
    /\ vec_size \in {0, 1}
    /\ \E keys \in SUBSET Orths : key2row \in [keys -> Rows]
    /\ \E lexs \in SUBSET Orths : lex_rank \in [lexs -> Rows]
    /\ VECTORS = {}
    /\ link_warned = FALSE
    /\ link_calls = 0
    /\ link_assigns = 0
    /\ link_pre = lex_rank

LinkIdle ==
    /\ vec_name = NoName
    /\ vec_size = 0
    /\ key2row = <<>>
    /\ lex_rank = <<>>
    /\ VECTORS = {}
    /\ link_warned = FALSE
    /\ link_calls = 0
    /\ link_assigns = 0
    /\ link_pre = <<>>

link_vectors_to_models ==
    /\ link_calls < MaxLinkCalls
    /\ vec_name' = LinkName(vec_name)
    /\ link_warned' = (vec_name = NoName /\ vec_size # 0)
    /\ lex_rank' = [o \in DOMAIN lex_rank |-> LinkRank(o, key2row)]
    /\ VECTORS' = VECTORS \cup {<<"cpu", vec_name'>>}
    /\ link_calls' = link_calls + 1
    /\ link_assigns' = link_assigns + (IF vec_name' # vec_name THEN 1 ELSE 0)
    /\ link_pre' = lex_rank
    /\ UNCHANGED <<vec_size, key2row>>
    /\ UNCHANGED notLink

\* The caller names the vector table itself (vocab.vectors.name = ...).
CallerSetsName ==
    /\ \E n \in CallerNames : vec_name' = n
    /\ vec_name' # vec_name
    /\ UNCHANGED <<vec_size, key2row, lex_rank, VECTORS, link_warned,
                   link_calls, link_assigns, link_pre>>
    /\ UNCHANGED notLink

LinkNext == link_vectors_to_models \/ CallerSetsName

\* C2: after link_vectors_to_models(vocab) has returned, every lexeme's rank
\* is the row key2row maps its orth identifier to, or 0 when the identifier
\* is no key of key2row, whatever the ranks were before the call.
C2_RanksFollowKey2Row ==
    link_calls > 0 =>
        \A o \in DOMAIN lex_rank :
            /\ o \in DOMAIN key2row => lex_rank[o] = key2row[o]
            /\ o \notin DOMAIN key2row => lex_rank[o] = 0

\* A call has re-ranked a lexeme found in key2row and zeroed one that is absent,
\* both of which had another rank before the call.
C2_Witness ==
    /\ link_calls > 0
    /\ \E o \in DOMAIN lex_rank :
          o \in DOMAIN key2row /\ lex_rank[o] = key2row[o] /\ link_pre[o] # lex_rank[o]
    /\ \E o \in DOMAIN lex_rank :
          o \notin DOMAIN key2row /\ lex_rank[o] = 0 /\ link_pre[o] # 0

\* C6: a linking call sets an unset name to the default key and leaves a name
\* that is already set (by the caller or by an earlier linking call) unchanged,
\* so over any sequence of linking calls the utility assigns the name at most once.
C6_NameSetAtMostOnce ==
    [][ link_calls' = link_calls + 1 =>
            /\ vec_name = NoName => vec_name' = VECTORS_KEY
            /\ vec_name # NoName => vec_name' = vec_name
            /\ link_assigns' <= 1 ]_vars

\* Two linking calls were made, the first named the table, and the name stayed.
C6_Witness ==
    /\ link_calls >= 2
    /\ link_assigns = 1
    /\ vec_name = VECTORS_KEY

---------------------------------------------------------------------------
(* get_col(idx): a layer that selects column idx of a 2-D array.           *)

MaxIdx == 2          \* idx arguments are -MaxIdx..MaxIdx
MaxGCRows == 2       \* the arrays have 0..MaxGCRows rows
MaxGCCols == 2       \* and 1..MaxGCCols columns

GCValues == {0, 1}
GCGrads == {1, 2}

\* The 2-D arrays given to forward: their backend and their rows.
GCArrays ==
    UNION { UNION { [ops : {"numpy", "cupy"}, ncols : {c},
                     data : [1..r -> [1..c -> GCValues]]]
                    : c \in 1..MaxGCCols } : r \in 0..MaxGCRows }

\* "if idx < 0: raise IndexError(Errors.E066.format(value=idx))"
GetColRaises_NoCheck(idx) == FALSE
GetColRaises(idx) == idx < 0

\* X[:, idx] for 0 <= idx: numpy raises its own IndexError when idx >= ncols.
ColumnInBounds(X, idx) == idx < X.ncols
Column(X, idx) == [n \in 1..Len(X.data) |-> X.data[n][idx + 1]]

\* dX = ops.allocate(X.shape); dX[:, idx] += y
ScatterColumn(X, idx, y) ==
    [n \in 1..Len(X.data) |->
        [c \in 1..X.ncols |-> IF c = idx + 1 THEN y[n] ELSE 0]]

NoArray == [ops |-> "none", ncols |-> 0, data |-> <<>>]

GCIdle ==
    /\ gc_pc = "none"
    /\ gc_arg = 0
    /\ gc_err = "none"
    /\ gc_idx = 0
    /\ gc_X = NoArray
    /\ gc_out = <<>>
    /\ gc_dX = <<>>

GCInit == GCIdle

\* get_col(idx): raises, or returns layerize(forward) with idx captured.
get_col ==
    /\ \E idx \in -MaxIdx..MaxIdx :
          /\ gc_arg' = idx
          /\ IF GetColRaises(idx)
                THEN /\ gc_pc' = "raised"
                     /\ gc_err' = "E066"
                     /\ gc_idx' = 0
                ELSE /\ gc_pc' = "made"
                     /\ gc_err' = "none"
                     /\ gc_idx' = idx
    /\ gc_X' = NoArray
    /\ gc_out' = <<>>
    /\ gc_dX' = <<>>
    /\ UNCHANGED notGC

\* forward(X) of the layer get_col returned.
get_col_forward ==
    /\ gc_pc \in {"made", "fwd", "fwd_raised", "bwd"}
    /\ \E X \in GCArrays :
          /\ gc_X' = X
          /\ IF ColumnInBounds(X, gc_idx)
                THEN /\ gc_out' = Column(X, gc_idx)
                     /\ gc_err' = "none"
                     /\ gc_pc' = "fwd"
                ELSE /\ gc_out' = <<>>
                     /\ gc_err' = "numpy"
                     /\ gc_pc' = "fwd_raised"
    /\ gc_dX' = <<>>
    /\ UNCHANGED <<gc_arg, gc_idx>>
    /\ UNCHANGED notGC

\* backward(y) of the last forward call.
get_col_backward ==
    /\ gc_pc \in {"fwd", "bwd"}
    /\ \E y \in [1..Len(gc_X.data) -> GCGrads] :
          gc_dX' = ScatterColumn(gc_X, gc_idx, y)
    /\ gc_pc' = "bwd"
    /\ UNCHANGED <<gc_arg, gc_err, gc_idx, gc_X, gc_out>>
    /\ UNCHANGED notGC

GCNext == get_col \/ get_col_forward \/ get_col_backward

\* C10: get_col asked for a negative column index raises its IndexError (E066)
\* and returns no layer; asked for a non-negative index it raises nothing and
\* returns the layer selecting that column.
C10_NegativeIndexRaises ==
    /\ gc_pc = "raised" <=> (gc_arg < 0 /\ gc_pc # "none")
    /\ gc_pc = "raised" => gc_err = "E066" /\ gc_out = <<>> /\ gc_dX = <<>>
    /\ (gc_pc # "none" /\ gc_arg >= 0) => gc_idx = gc_arg
    /\ gc_err = "E066" => gc_pc = "raised"

\* Both cases happen: a negative index has raised, and (in another state) a layer
\* made for a positive index has selected that column.
C10_WitnessRaised == gc_pc = "raised" /\ gc_arg = -1 /\ gc_err = "E066"

---------------------------------------------------------------------------
(* flatten / _flatten_add_lengths                                          *)

MaxSeqs == 2         \* sequences in a batch
MaxSeqLen == 2       \* rows in a sequence
MaxPad == 1          \* pad widths are 0..MaxPad

FLValues == {1, 2}   \* the rows of the sequences (a pad row is 0)

Min(a, b) == IF a <= b THEN a ELSE b

\* Python slices X[:n] and X[n:].
Take(X, n) == SubSeq(X, 1, Min(n, Len(X)))
Drop(X, n) == SubSeq(X, n + 1, Len(X))

SeqsUpTo(S, n) == UNION { [1..k -> S] : k \in 0..n }
FLBatches == SeqsUpTo(SeqsUpTo(FLValues, MaxSeqLen), MaxSeqs)

PadRows(pad) == [i \in 1..pad |-> 0]

\* ops.flatten(seqs, pad=pad): the sequences concatenated, pad-delimited.
RECURSIVE OpsFlattenFrom(_, _)
OpsFlattenFrom(seqs, pad) ==
    IF seqs = <<>> THEN PadRows(pad)
    ELSE PadRows(pad) \o seqs[1] \o OpsFlattenFrom(Tail(seqs), pad)
OpsFlatten(seqs, pad) == IF seqs = <<>> THEN <<>> ELSE OpsFlattenFrom(seqs, pad)

\* ops.unflatten(X, lengths, pad=pad): one array per recorded length.
RECURSIVE OpsUnflatten(_, _, _)
OpsUnflatten(X, lengths, pad) ==
    IF lengths = <<>> THEN <<>>
    ELSE <<Take(Drop(X, pad), lengths[1])>>
            \o OpsUnflatten(Drop(Drop(X, pad), lengths[1]), Tail(lengths), pad)

\* lengths = ops.asarray([len(seq) for seq in seqs], dtype="i")
RecordedLengths_Reversed(seqs) ==
    [i \in 1..Len(seqs) |-> Len(seqs[Len(seqs) + 1 - i])]
RecordedLengths(seqs) == [i \in 1..Len(seqs) |-> Len(seqs[i])]

\* The pad each layer uses, in its forward and in its finish_update.
LayerPad(layer, pad) == IF layer = "flatten" THEN 0 ELSE pad

\* The flat gradients given to finish_update: any array shaped like X.
FLGrads(n) == { [i \in 1..n |-> k * i] : k \in {1, -1} }

FLIdle ==
    /\ fl_pc = "none"
    /\ fl_layer = "flatten"
    /\ fl_seqs = <<>>
    /\ fl_pad = 0
    /\ fl_lengths = <<>>
    /\ fl_X = <<>>
    /\ fl_dX = <<>>
    /\ fl_out = <<>>

FLInit == FLIdle

\* flatten(seqs) or _flatten_add_lengths(seqs, pad): the forward pass.
flatten_forward ==
    /\ \E layer \in {"flatten", "_flatten_add_lengths"}, seqs \in FLBatches,
          pad \in 0..MaxPad :
          /\ layer = "flatten" => pad = 0
          /\ fl_layer' = layer
          /\ fl_seqs' = seqs
          /\ fl_pad' = LayerPad(layer, pad)
          /\ fl_lengths' = RecordedLengths(seqs)
          /\ fl_X' = OpsFlatten(seqs, LayerPad(layer, pad))
    /\ fl_pc' = "fwd"
    /\ fl_dX' = <<>>
    /\ fl_out' = <<>>
    /\ UNCHANGED notFL

\* finish_update(d_X) of the last forward pass.
flatten_finish_update ==
    /\ fl_pc \in {"fwd", "bwd"}
    /\ \E d_X \in FLGrads(Len(fl_X)) :
          /\ fl_dX' = d_X
          /\ fl_out' = OpsUnflatten(d_X, fl_lengths, fl_pad)
    /\ fl_pc' = "bwd"
    /\ UNCHANGED <<fl_layer, fl_seqs, fl_pad, fl_lengths, fl_X>>
    /\ UNCHANGED notFL

FLNext == flatten_forward \/ flatten_finish_update

\* C9: the backward function of flatten (pad 0) and of _flatten_add_lengths
\* (the caller's pad), given a flat gradient shaped like the flattened output,
\* returns one array per input sequence, with the original lengths in the
\* original order; with pad 0 the flattened length is the sum of the lengths.
C9_UnflattenRestoresShapes ==
    /\ fl_pc = "bwd" =>
          /\ Len(fl_out) = Len(fl_seqs)
          /\ \A i \in 1..Len(fl_seqs) : Len(fl_out[i]) = Len(fl_seqs[i])
    /\ (fl_pc # "none" /\ fl_pad = 0) =>
          Len(fl_X) = SumSeq([i \in 1..Len(fl_seqs) |-> Len(fl_seqs[i])])

\* A padded batch of two sequences of different lengths has been un-flattened.
C9_Witness ==
    /\ fl_pc = "bwd"
    /\ fl_layer = "_flatten_add_lengths"
    /\ fl_pad >= 1
    /\ Len(fl_seqs) = 2
    /\ Len(fl_seqs[1]) # Len(fl_seqs[2])
    /\ Len(fl_out[1]) = Len(fl_seqs[1])
    /\ Len(fl_out[2]) = Len(fl_seqs[2])

---------------------------------------------------------------------------
(* Tok2Vec / build_tagger_model                                            *)

MaxClass == 2                    \* nr_class is 1..MaxClass

DefaultTokenVectorWidth == 96    \* util.env_opt("token_vector_width", 96)
DefaultEmbedSize == 2000         \* util.env_opt("embed_size", 2000)

OtherWidth == 64                 \* a width that is not the default
TGWidths == {OtherWidth, DefaultTokenVectorWidth}
Unset == 0                       \* an environment variable that is not set

\* util.env_opt(name, default): the environment's value when set, else default.
EnvOpt(env, name, default) == IF env[name] = Unset THEN default ELSE env[name]

NoEncoder == [built |-> FALSE, nO |-> 0, embed_size |-> 0, embed_nI |-> 0,
              pretrained |-> FALSE, subword |-> FALSE,
              conv_depth |-> 0, bilstm_depth |-> 0]

\* Tok2Vec(width, embed_size, pretrained_vectors=..., subword_features=...):
\* embed_nI is the input width of the Maxout that mixes the embeddings (0 when
\* the norm embedding is used alone); conv_depth and bilstm_depth are defaults.
Tok2Vec(width, embed_size, pretrained, subword) ==
    [built |-> TRUE, nO |-> width, embed_size |-> embed_size,
     embed_nI |-> IF pretrained /\ subword THEN width * 5
                  ELSE IF pretrained THEN width * 2
                  ELSE IF subword THEN width * 4
                  ELSE 0,
     pretrained |-> pretrained, subword |-> subword,
     conv_depth |-> 4, bilstm_depth |-> 0]

\* cfg of build_tagger_model: has_* says whether the key is present.
TGConfigs(encoder) ==
    { c \in [has_width : BOOLEAN, token_vector_width : TGWidths,
             pretrained_vectors : BOOLEAN,
             has_subword : BOOLEAN, has_tok2vec : BOOLEAN, tok2vec : {encoder}] :
        /\ c.has_tok2vec => encoder.built
        /\ ~c.has_width => c.token_vector_width = DefaultTokenVectorWidth }

\* cfg.get("subword_features", True); the key, when present, is False here.
SubwordFeatures(cfg) == ~cfg.has_subword

\* token_vector_width as lines 508-511 compute it.
TokenVectorWidth(cfg, env) ==
    IF cfg.has_width THEN cfg.token_vector_width
    ELSE EnvOpt(env, "token_vector_width", DefaultTokenVectorWidth)

\* The encoder the classifier is chained after (lines 515-523).
TaggerTok2Vec(cfg, env) ==
    IF cfg.has_tok2vec THEN cfg.tok2vec
    ELSE Tok2Vec(TokenVectorWidth(cfg, env),
                 EnvOpt(env, "embed_size", DefaultEmbedSize),
                 cfg.pretrained_vectors, SubwordFeatures(cfg))

\* with_flatten(Softmax(nr_class, token_vector_width))
TaggerSoftmax(nr_class, cfg, env) ==
    [nO |-> nr_class, nI |-> TokenVectorWidth(cfg, env)]

NoModel == [built |-> FALSE, nr_class |-> 0, tok2vec |-> NoEncoder,
            softmax |-> [nO |-> 0, nI |-> 0], nI |-> "None"]

build_tagger_model_result(nr_class, cfg, env) ==
    [built |-> TRUE, nr_class |-> nr_class,
     tok2vec |-> TaggerTok2Vec(cfg, env),
     softmax |-> TaggerSoftmax(nr_class, cfg, env),
     nI |-> "None"]

TGEnvs == [token_vector_width : {Unset, OtherWidth}, embed_size : {Unset, 5000}]

TGIdle ==
    /\ tg_env = [token_vector_width |-> Unset, embed_size |-> Unset]
    /\ tg_encoders = NoEncoder
    /\ tg_cfg = CHOOSE c \in TGConfigs(NoEncoder) :
                    ~c.has_width /\ ~c.pretrained_vectors /\ ~c.has_subword
    /\ tg_model = NoModel

TGInit ==
    /\ tg_env \in TGEnvs
    /\ tg_encoders = NoEncoder
    /\ tg_cfg = CHOOSE c \in TGConfigs(NoEncoder) :
                    ~c.has_width /\ ~c.pretrained_vectors /\ ~c.has_subword
    /\ tg_model = NoModel

\* A caller builds an encoder of its own, to pass later as cfg["tok2vec"].
tok2vec_prebuilt ==
    /\ \E width \in TGWidths, pretrained \in BOOLEAN, subword \in BOOLEAN :
          tg_encoders' = Tok2Vec(width, EnvOpt(tg_env, "embed_size", DefaultEmbedSize),
                                 pretrained, subword)
    /\ UNCHANGED <<tg_env, tg_cfg, tg_model>>
    /\ UNCHANGED notTG

build_tagger_model ==
    /\ \E nr_class \in 1..MaxClass, cfg \in TGConfigs(tg_encoders) :
          /\ tg_cfg' = cfg
          /\ tg_model' = build_tagger_model_result(nr_class, cfg, tg_env)
    /\ UNCHANGED <<tg_env, tg_encoders>>
    /\ UNCHANGED notTG

TGNext == tok2vec_prebuilt \/ build_tagger_model

\* C7: the softmax classifier build_tagger_model appends has input width equal
\* to the output width of the encoder it is chained after and output width
\* nr_class, with a fresh encoder and with one reused from cfg["tok2vec"]; the
\* model exposes that encoder as tok2vec and the classifier as softmax.
C7_SoftmaxFitsEncoder ==
    tg_model.built =>
        /\ tg_model.softmax.nI = tg_model.tok2vec.nO
        /\ tg_model.softmax.nO = tg_model.nr_class
        /\ tg_model.tok2vec.built
        /\ tg_cfg.has_tok2vec => tg_model.tok2vec = tg_cfg.tok2vec

---------------------------------------------------------------------------
(* PrecomputableAffine                                                     *)

PA_nF == 2          \* feature slots
PA_nO == 1          \* outputs
PA_nP == 2          \* maxout pieces
PA_nI == 1          \* input width
MaxBatch == 2       \* rows of the input X
MaxStates == 2      \* rows of dY and ids in one backward call
MaxInitCalls == 2   \* init_weights calls in one run
MaxBackward == 1    \* backward calls in one run

t_max == 10         \* iterations of the fixed-point loop of init_weights

Feats == 1..PA_nF
Outs == 1..PA_nO
Pieces == 1..PA_nP
Ins == 1..PA_nI

XValues == {1, 2}
DYValues == {1, 3}
Seeds == {1, 2}

\* Sum of f[x] over the finite set S.
RECURSIVE SumOver(_, _)
SumOver(S, f) ==
    IF S = {} THEN 0
    ELSE LET x == CHOOSE y \in S : TRUE IN f[x] + SumOver(S \ {x}, f)

RECURSIVE Pow2(_)
Pow2(n) == IF n = 0 THEN 1 ELSE 2 * Pow2(n - 1)

ZerosW == [f \in Feats |-> [o \in Outs |-> [p \in Pieces |-> [i \in Ins |-> 0]]]]
ZerosB == [o \in Outs |-> [p \in Pieces |-> 0]]
ZerosPad == [f \in Feats |-> [o \in Outs |-> [p \in Pieces |-> 0]]]

\* ops.normal_init(W, ...): random draws, none of them exactly 0; the seed
\* stands for the state of the random generator.
NormalInitW(seed) ==
    [f \in Feats |-> [o \in Outs |-> [p \in Pieces |-> [i \in Ins |->
        IF (f + o + p + i + seed) % 2 = 0 THEN seed ELSE 0 - seed]]]]
NormalInitPad(seed) ==
    [f \in Feats |-> [o \in Outs |-> [p \in Pieces |->
        IF (f + o + p + seed) % 2 = 0 THEN 3 + seed ELSE 0 - (3 + seed)]]]

\* (model.W ** 2).sum()
SumSqW(W) ==
    SumOver(Feats \X Outs \X Pieces \X Ins,
            [t \in Feats \X Outs \X Pieces \X Ins |->
                W[t[1]][t[2]][t[3]][t[4]] * W[t[1]][t[2]][t[3]][t[4]]])

\* "if (model.W ** 2).sum() != 0.0: return"
InitReturnsEarly_Never(W) == FALSE
InitReturnsEarly(W) == SumSqW(W) # 0

\* The fixed-point loop: each of at most t_max iterations either rescales W
\* (model.W /= sqrt(var)), or shifts b (model.b -= mean), or breaks.  var and
\* mean come from random data: r rescalings by the factor 2 and s unit shifts
\* stand for the loop's possible outcomes, with none, one or as many of each
\* as the loop allows.
LoopOutcomes ==
    { t \in {0, 1, t_max} \X {0, 1, t_max} : t[1] + t[2] <= t_max }
ScaleW(W, k) ==
    [f \in Feats |-> [o \in Outs |-> [p \in Pieces |-> [i \in Ins |->
        W[f][o][p][i] * k]]]]
ShiftB(bias, s) == [o \in Outs |-> [p \in Pieces |-> bias[o][p] - s]]

\* Python / numpy indexing of an array of n rows by i: the position (1-based)
\* it reads; a negative i counts from the end.
NpPos(n, i) == IF i < 0 THEN n + i + 1 ELSE i + 1

\* Yf = gemm(X, W.reshape((nF*nO*nP, nI)), trans2=True).reshape((N, nF, nO, nP))
Activations(W, x) ==
    [f \in Feats |-> [o \in Outs |-> [p \in Pieces |->
        SumOver(Ins, [i \in Ins |-> x[i] * W[f][o][p][i]])]]]
Gemm(W, X) == [n \in 1..Len(X) |-> Activations(W, X[n])]

\* _add_padding: Yf_padded = vstack((self.pad, Yf))
AddPadding_PadLast(pad, Yf) == Yf \o <<pad>>
AddPadding(pad, Yf) == <<pad>> \o Yf

\* The consumer of Yf (the parser's state-feature summation) reads, for an index
\* id of the ids array, the pad row when id is negative and the activations
\* of input row id otherwise.
DownstreamRow(Y, id) == IF id < 0 THEN Y[1] ELSE Y[id + 2]

\* _backprop_padding: mask = (ids < 0).sum(axis=1);
\* self.d_pad += (dY * mask.reshape((N, 1, 1))).sum(axis=0)
PadUses(ids, n) == Cardinality({f \in Feats : ids[n][f] < 0})
BackpropPadding(d_pad, dY, ids) ==
    [f \in Feats |-> [o \in Outs |-> [p \in Pieces |->
        d_pad[f][o][p]
          + SumOver(DOMAIN dY, [n \in DOMAIN dY |-> dY[n][o][p] * PadUses(ids, n)])]]]

\* self.d_b += dY.sum(axis=0)
BackpropBias(d_b, dY) ==
    [o \in Outs |-> [p \in Pieces |->
        d_b[o][p] + SumOver(DOMAIN dY, [n \in DOMAIN dY |-> dY[n][o][p]])]]

\* Xf = X[ids]
GatherX(X, ids) == [n \in DOMAIN ids |-> [f \in Feats |-> X[NpPos(Len(X), ids[n][f])]]]

\* self.d_W += gemm(dY, Xf, trans1=True), transposed back to (f, o, p, i)
BackpropW(d_W, dY, Xf) ==
    [f \in Feats |-> [o \in Outs |-> [p \in Pieces |-> [i \in Ins |->
        d_W[f][o][p][i]
          + SumOver(DOMAIN dY, [n \in DOMAIN dY |-> dY[n][o][p] * Xf[n][f][i]])]]]]

\* dXf = gemm(dY, Wopfi).reshape((N, nF, nI))
BackpropX(W, dY) ==
    [n \in DOMAIN dY |-> [f \in Feats |-> [i \in Ins |->
        SumOver(Outs \X Pieces,
                [t \in Outs \X Pieces |-> dY[n][t[1]][t[2]] * W[f][t[1]][t[2]][i]])]]]

\* "Reuse the buffer": Wopfi is ascontiguousarray(W.transpose((1, 2, 0, 3))),
\* which is a copy unless the transposed view is already contiguous; then
\* dWopfi.fill(0.0) would write through to W.
WopfiAliasesW == PA_nF = 1 \/ PA_nO * PA_nP = 1

PAInputs == UNION { [1..n -> [Ins -> XValues]] : n \in 0..MaxBatch }
PAGrads == UNION { [1..n -> [Outs -> [Pieces -> DYValues]]] : n \in 1..MaxStates }
PAIds(nS, nX) == [1..nS -> [Feats -> -1..(nX - 1)]]

PAIdle ==
    /\ pa_W = <<>> /\ pa_b = <<>> /\ pa_pad = <<>>
    /\ pa_dW = <<>> /\ pa_db = <<>> /\ pa_dpad = <<>>
    /\ pa_pc = "new"
    /\ pa_X = <<>> /\ pa_Y = <<>>
    /\ pa_dY = <<>> /\ pa_ids = <<>> /\ pa_dXf = <<>> /\ pa_pre = <<>>
    /\ pa_ninit = 0 /\ pa_initmods = 0 /\ pa_nback = 0

\* PrecomputableAffine(nO, nI, nF, nP): W and b are allocated zeroed, pad is
\* drawn by ops.normal_init(M, 1.0), the gradients are zero.
PAInit ==
    /\ pa_W = ZerosW /\ pa_b = ZerosB
    /\ \E seed \in Seeds : pa_pad = NormalInitPad(seed)
    /\ pa_dW = ZerosW /\ pa_db = ZerosB /\ pa_dpad = ZerosPad
    /\ pa_pc = "new"
    /\ pa_X = <<>> /\ pa_Y = <<>>
    /\ pa_dY = <<>> /\ pa_ids = <<>> /\ pa_dXf = <<>> /\ pa_pre = ZerosPad
    /\ pa_ninit = 0 /\ pa_initmods = 0 /\ pa_nback = 0

\* PrecomputableAffine.init_weights(model)
init_weights ==
    /\ pa_ninit < MaxInitCalls
    /\ pa_ninit' = pa_ninit + 1
    /\ IF InitReturnsEarly(pa_W)
          THEN UNCHANGED <<pa_W, pa_b>>
          ELSE \E seed \in Seeds, t \in LoopOutcomes :
                  /\ pa_W' = ScaleW(NormalInitW(seed), Pow2(t[1]))
                  /\ pa_b' = ShiftB(pa_b, t[2])
    /\ pa_initmods' = pa_initmods + (IF pa_W' # pa_W \/ pa_b' # pa_b THEN 1 ELSE 0)
    /\ UNCHANGED <<pa_pad, pa_dW, pa_db, pa_dpad, pa_pc, pa_X, pa_Y,
                   pa_dY, pa_ids, pa_dXf, pa_pre, pa_nback>>
    /\ UNCHANGED notPA

\* PrecomputableAffine.begin_update(X)
begin_update ==
    /\ pa_nback < MaxBackward
    /\ \E X \in PAInputs :
          /\ pa_X' = X
          /\ pa_Y' = AddPadding(pa_pad, Gemm(pa_W, X))
    /\ pa_pc' = "fwd"
    /\ pa_dY' = <<>> /\ pa_ids' = <<>> /\ pa_dXf' = <<>>
    /\ UNCHANGED <<pa_W, pa_b, pa_pad, pa_dW, pa_db, pa_dpad, pa_pre,
                   pa_ninit, pa_initmods, pa_nback>>
    /\ UNCHANGED notPA

\* backward((dY, ids)) of the last begin_update, called without an optimizer.
backward ==
    /\ pa_pc \in {"fwd", "bwd"}
    /\ Len(pa_X) >= 1
    /\ pa_nback < MaxBackward
    /\ \E dY \in PAGrads :
       \E ids \in PAIds(Len(dY), Len(pa_X)) :
          /\ pa_dY' = dY
          /\ pa_ids' = ids
          /\ pa_dpad' = BackpropPadding(pa_dpad, dY, ids)
          /\ pa_db' = BackpropBias(pa_db, dY)
          /\ pa_dW' = BackpropW(pa_dW, dY, GatherX(pa_X, ids))
          /\ pa_dXf' = BackpropX(pa_W, dY)
    /\ pa_W' = IF WopfiAliasesW THEN ZerosW ELSE pa_W
    /\ pa_pre' = pa_dpad
    /\ pa_pc' = "bwd"
    /\ pa_nback' = pa_nback + 1
    /\ UNCHANGED <<pa_b, pa_pad, pa_X, pa_Y, pa_ninit, pa_initmods>>
    /\ UNCHANGED notPA

PANext == init_weights \/ begin_update

PABackNext == init_weights \/ begin_update \/ backward

\* C3: in begin_update's output (batch + 1 rows) a downstream index of -1
\* ("no such feature") reads the pad row, and an index n >= 0 reads the
\* activations of input row n, for every batch size >= 1.  A step that is
\* neither init_weights nor backward is a begin_update.
C3_MinusOneReadsPad ==
    [][ (pa_ninit' = pa_ninit /\ pa_nback' = pa_nback /\ Len(pa_X') >= 1) =>
            /\ pa_pc' = "fwd"
            /\ Len(pa_Y') = Len(pa_X') + 1
            /\ DownstreamRow(pa_Y', -1) = pa_pad'
            /\ \A n \in 1..Len(pa_X') :
                  DownstreamRow(pa_Y', n - 1) = Activations(pa_W', pa_X'[n]) ]_vars

\* A forward pass over two inputs on initialised weights, none of whose rows
\* happens to equal the pad row.
C3_Witness ==
    /\ pa_pc = "fwd"
    /\ Len(pa_X) = 2
    /\ pa_W # ZerosW
    /\ DownstreamRow(pa_Y, -1) = pa_pad
    /\ pa_Y[2] # pa_pad /\ pa_Y[3] # pa_pad

\* C4: one backward call adds to d_pad, for each feature slot f, exactly the
\* sum of the incoming gradients of the rows whose index entry at slot f is
\* negative, and nothing for the other rows.
C4_PadGradientPerSlot ==
    pa_pc = "bwd" =>
        \A f \in Feats, o \in Outs, p \in Pieces :
            pa_dpad[f][o][p] - pa_pre[f][o][p]
              = SumOver({n \in DOMAIN pa_dY : pa_ids[n][f] < 0},
                        [n \in DOMAIN pa_dY |-> pa_dY[n][o][p]])

\* C8: init_weights on a layer whose W is not all zero leaves W and b
\* unchanged, so in any sequence of calls at most one (the first, made while
\* W is all zero) modifies W or b.
C8_InitIsNoOpOnNonzeroW ==
    [][ pa_ninit' = pa_ninit + 1 =>
            /\ pa_W # ZerosW => (pa_W' = pa_W /\ pa_b' = pa_b)
            /\ pa_initmods' <= 1 ]_vars

\* A second init_weights call has run on weights the first call initialised.
C8_Witness ==
    /\ pa_ninit >= 2
    /\ pa_initmods = 1
    /\ pa_W # ZerosW
    /\ pa_b # ZerosB

---------------------------------------------------------------------------
(* _RandomWords                                                            *)

MaxVocab == 3        \* lexemes in the vocabulary
MaxWords == 2        \* stands for the 10000 of words[:10000] / probs[:10000]
CacheSize == 2       \* stands for the 10000 indices drawn by one refill
MaxNextCalls == 5    \* next() calls in one run: enough for a third refill

\* lex.prob is a smoothed log-probability: 0.0 is "no frequency known", and
\* a very negative value underflows under the float32 exponential.
LogProbs == {0, -1, -200}

\* numpy.exp on dtype "f", as an integer weight: exp(-200) underflows to 0.
ExpF32(lp) == IF lp = 0 THEN 8 ELSE IF lp = -1 THEN 3 ELSE 0

\* The text of the lexeme at position i of the vocabulary.
LexText(i) == IF i = 1 THEN "w1" ELSE IF i = 2 THEN "w2"
              ELSE IF i = 3 THEN "w3" ELSE "w4"

Vocabs ==
    UNION { { [i \in 1..n |-> [text |-> LexText(i), prob |-> lp[i]]] :
                lp \in [1..n -> LogProbs] } : n \in 0..MaxVocab }

\* s[:n]
Truncate(s, n) == [i \in 1..Min(Len(s), n) |-> s[i]]

HasProb(lex) == lex.prob # 0

\* self.words, after the [:10000] cut
RWWords(v) ==
    LET kept == SelectSeq(v, HasProb)
    IN  Truncate([i \in 1..Len(kept) |-> kept[i].text], MaxWords)

\* self.probs: each weight over the sum of the weights, as numerator and
\* denominator; a zero denominator is the NaN of 0.0 / 0.0.
RWProbs(v) ==
    LET kept == SelectSeq(v, HasProb)
        w    == Truncate([i \in 1..Len(kept) |-> ExpF32(kept[i].prob)], MaxWords)
        tot  == SumSeq(w)
    IN  [i \in 1..Len(w) |-> [num |-> w[i], den |-> tot]]

\* numpy.random.choice(n, size, p=probs) raises ValueError when n is 0 or
\* when probs holds a NaN.
ChoiceRaises(n, probs) ==
    n = 0 \/ \E i \in 1..Len(probs) : probs[i].den = 0

\* The (0-based) indices choice can draw: those of positive probability.
ChoiceIndices(n, probs) == { i \in 0..(n - 1) : probs[i + 1].num > 0 }

\* "if not self._cache"
CacheEmpty_Never(cache) == FALSE
CacheEmpty(cache) == cache = <<>>

RWIdle ==
    /\ vocab = <<>>
    /\ rw_words = <<>> /\ rw_probs = <<>> /\ rw_cache = <<>>
    /\ rw_out = "" /\ rw_err = "none"
    /\ rw_calls = 0 /\ rw_refills = 0

\* _RandomWords(vocab)
RWConstruct(v) ==
    /\ vocab = v
    /\ rw_words = RWWords(v)
    /\ rw_probs = RWProbs(v)
    /\ rw_cache = <<>>
    /\ rw_out = "" /\ rw_err = "none"
    /\ rw_calls = 0 /\ rw_refills = 0

RWInit == \E v \in Vocabs : RWConstruct(v)

\* The cache after the refill step of next(), given the indices choice drew.
Refilled(cache, drawn) == IF CacheEmpty(cache) THEN cache \o drawn ELSE cache

\* The sampler's mutable state.
RWState ==
    [cache |-> rw_cache, out |-> rw_out, err |-> rw_err,
     calls |-> rw_calls, refills |-> rw_refills]

\* _RandomWords.next() from sampler state st: refill the cache when it is
\* empty, pop its last index and return the word at that index (st.out).  A
\* raised exception leaves the cache as it was and is recorded in st.err.
NextOutcomes(words, probs, st) ==
    IF CacheEmpty(st.cache) /\ ChoiceRaises(Len(words), probs)
       THEN { [st EXCEPT !.err = "ValueError", !.calls = @ + 1] }
       ELSE { LET cache == Refilled(st.cache, drawn)
              IN  IF cache = <<>>
                     THEN [st EXCEPT !.err = "IndexError", !.calls = @ + 1]
                     ELSE [cache   |-> SubSeq(cache, 1, Len(cache) - 1),
                           out     |-> words[cache[Len(cache)] + 1],
                           err     |-> "none",
                           calls   |-> st.calls + 1,
                           refills |-> st.refills
                                + (IF CacheEmpty(st.cache) THEN 1 ELSE 0)]
              : drawn \in [1..CacheSize -> ChoiceIndices(Len(words), probs)] }

SetRWState(st) ==
    /\ rw_cache' = st.cache
    /\ rw_out' = st.out
    /\ rw_err' = st.err
    /\ rw_calls' = st.calls
    /\ rw_refills' = st.refills

\* One call of next() on the instance.
next ==
    /\ rw_calls < MaxNextCalls
    /\ \E st \in NextOutcomes(rw_words, rw_probs, RWState) : SetRWState(st)
    /\ UNCHANGED <<vocab, rw_words, rw_probs>>
    /\ UNCHANGED mlmVars
    /\ UNCHANGED notMLM

RWNext == next

\* The normalised probabilities form a distribution: there is at least one
\* word and the weights do not all underflow to zero.
ValidDistribution ==
    /\ Len(rw_words) >= 1
    /\ \A i \in 1..Len(rw_probs) : rw_probs[i].den > 0

\* C5 (as stated): on any _RandomWords instance, every next() call completes
\* without error and returns a word of the instance's word list.
C5_NextNeverRaises ==
    /\ rw_err = "none"
    /\ rw_calls > 0 => rw_out \in Range(rw_words)

\* C5 (amended): on an instance whose word list is not empty and whose
\* probabilities form a distribution, every next() call, also past the
\* exhaustion of the cache, completes without error and returns a word of
\* the word list; the cache only ever holds indices of that list.
C5_NextReturnsListedWord ==
    ValidDistribution =>
        /\ rw_err = "none"
        /\ rw_calls > 0 => rw_out \in Range(rw_words)
        /\ \A k \in 1..Len(rw_cache) : rw_cache[k] \in 0..(Len(rw_words) - 1)
        /\ Len(rw_cache) < CacheSize

\* More calls than one refill provides: the cache ran empty and was refilled,
\* on a vocabulary longer than the word list keeps.
C5_Witness ==
    /\ ValidDistribution
    /\ rw_calls > CacheSize
    /\ rw_refills >= 2
    /\ rw_err = "none"
    /\ rw_out \in Range(rw_words)

---------------------------------------------------------------------------
(* masked_language_model                                                   *)

MaxDocs == 2         \* documents in one batch
MaxTokens == 2       \* tokens in one batch
MLMWidth == 1        \* columns of the wrapped model's output
MaxMLMVocab == 1     \* lexemes of the vocabulary given to masked_language_model
MaxSamples == CacheSize + 1   \* next() calls of one wrapper: past one refill

\* Uniform values in [0, 1), in hundredths.
MaskProb == 15       \* mask_prob=0.15
MaskRoll == 80       \* "if roll < 0.8"
RandomRoll == 90     \* "elif roll < 0.9"
NoRoll == -1         \* no roll was drawn for the token

Draws == {MaskProb - 1, MaskProb}
Rolls == {MaskRoll - 1, MaskRoll, RandomRoll}
GradValues == {1, 2}
MASK == "[MASK]"

\* A token: its text and its whitespace_ string (" " or "").
MLMTokens == { [text |-> "a", whitespace_ |-> " "], [text |-> "b", whitespace_ |-> ""] }

\* bool(w.whitespace_)
Bool(str) == str # ""

\* "if not mask[i]": the token is handed to _replace_word.
Corrupts_Inverted(m) == m
Corrupts(m) == ~m

\* Doc(vocab, words=words, spaces=spaces): one token per word, with the
\* word as its text and the flag at the same position as its trailing space.
Doc(words, spaces) ==
    [k \in 1..Len(words) |-> [text |-> words[k], space |-> spaces[k]]]

RECURSIVE FlatTokens(_)
FlatTokens(docs) ==
    IF docs = <<>> THEN <<>> ELSE Head(docs) \o FlatTokens(Tail(docs))

MLMDocs == UNION { [1..k -> MLMTokens] : k \in 0..MaxTokens }
MLMBatches ==
    { b \in UNION { [1..n -> MLMDocs] : n \in 0..MaxDocs } :
        Len(FlatTokens(b)) <= MaxTokens }

MLMVocabs == { v \in Vocabs : Len(v) <= MaxMLMVocab }

ReplaceWord_Swapped(words, probs, word, roll, st) ==
    IF roll < MaskRoll
       THEN { [word |-> MASK, st |-> st, raised |-> FALSE] }
       ELSE IF roll < RandomRoll
               THEN { [word |-> word, st |-> st, raised |-> FALSE] }
               ELSE { [word |-> n.out, st |-> n, raised |-> n.err # "none"] :
                         n \in NextOutcomes(words, probs, st) }

\* _replace_word(word, random_words) with the given roll, from sampler state
\* st: the word returned (or the exception raised by next()) and the
\* sampler's state afterwards.
ReplaceWord(words, probs, word, roll, st) ==
    IF roll < MaskRoll
       THEN { [word |-> MASK, st |-> st, raised |-> FALSE] }
       ELSE IF roll < RandomRoll
               THEN { [word |-> n.out, st |-> n, raised |-> n.err # "none"] :
                         n \in NextOutcomes(words, probs, st) }
               ELSE { [word |-> word, st |-> st, raised |-> FALSE] }

\* The token loop of _apply_mask from token i on (i counts over the whole
\* batch): the words of the new documents and the sampler's state afterwards.
RECURSIVE ApplyMaskFrom(_, _, _, _, _, _, _)
ApplyMaskFrom(words, probs, toks, mask, rolls, i, st) ==
    IF i > Len(toks)
       THEN { [words |-> <<>>, st |-> st, raised |-> FALSE] }
       ELSE LET heads ==
                  IF Corrupts(mask[i])
                     THEN ReplaceWord(words, probs, toks[i].text, rolls[i], st)
                     ELSE { [word |-> toks[i].text, st |-> st, raised |-> FALSE] }
            IN  UNION { IF h.raised
                           THEN { [words |-> <<>>, st |-> h.st, raised |-> TRUE] }
                           ELSE { [words  |-> <<h.word>> \o r.words,
                                   st     |-> r.st,
                                   raised |-> r.raised] :
                                  r \in ApplyMaskFrom(words, probs, toks, mask,
                                                      rolls, i + 1, h.st) }
                        : h \in heads }

\* Doc(doc.vocab, words=words, spaces=spaces) for each doc of the batch, the
\* words taken in order from the flat list.
RECURSIVE MaskedDocs(_, _)
MaskedDocs(docs, words) ==
    IF docs = <<>> THEN <<>>
    ELSE LET doc == Head(docs)
         IN  << Doc(SubSeq(words, 1, Len(doc)),
                    [k \in 1..Len(doc) |-> Bool(doc[k].whitespace_)]) >>
             \o MaskedDocs(Tail(docs), SubSeq(words, Len(doc) + 1, Len(words)))

\* "1 - mask" for one mask value.
OneMinusMask_Mask(m) == IF m THEN 1 ELSE 0
OneMinusMask(m) == 1 - (IF m THEN 1 ELSE 0)

\* A sampler on which next() was never called.
FreshRWState == [cache |-> <<>>, out |-> "", err |-> "none", calls |-> 0, refills |-> 0]

\* The sampler mlm_forward hands to _apply_mask: random_words, the variable of
\* the enclosing masked_language_model call, in the state st it is in.
SamplerOfForward_Fresh(st) == FreshRWState
SamplerOfForward(st) == st

MLMIdle ==
    /\ mlm_pc = "idle"
    /\ mlm_docs = <<>> /\ mlm_draws = <<>> /\ mlm_mask = <<>> /\ mlm_masked = <<>>
    /\ mlm_rolls = <<>> /\ mlm_dout = <<>> /\ mlm_bpin = <<>>

\* masked_language_model(vocab, model): the sampler is built here, once.
MLMInit == (\E v \in MLMVocabs : RWConstruct(v)) /\ MLMIdle

\* mlm_forward(docs): _apply_mask, then the wrapped model's begin_update on
\* the new documents.  An exception of the sampler ends the call.
mlm_forward ==
    \E docs \in MLMBatches :
      LET toks == FlatTokens(docs)
          N    == Len(toks)
      IN  \E draws \in [1..N -> Draws] :
            LET mask == [i \in 1..N |-> draws[i] >= MaskProb]
            IN  \E rolls \in { r \in [1..N -> Rolls \cup {NoRoll}] :
                                 \A i \in 1..N : (r[i] = NoRoll) <=> ~Corrupts(mask[i]) } :
                \E o \in ApplyMaskFrom(rw_words, rw_probs, toks, mask, rolls, 1,
                                     SamplerOfForward(RWState)) :
                  /\ o.st.calls <= MaxSamples
                  /\ SetRWState(o.st)
                  /\ mlm_docs' = docs
                  /\ mlm_draws' = draws
                  /\ mlm_mask' = mask
                  /\ mlm_rolls' = rolls
                  /\ IF o.raised
                        THEN mlm_pc' = "fwd_raised" /\ mlm_masked' = <<>>
                        ELSE mlm_pc' = "fwd" /\ mlm_masked' = MaskedDocs(docs, o.words)
                  /\ mlm_dout' = <<>> /\ mlm_bpin' = <<>>
                  /\ UNCHANGED <<vocab, rw_words, rw_probs>>
                  /\ UNCHANGED notMLM

\* mlm_backward(d_output): "d_output *= 1 - mask", then the wrapped model's
\* backward on the result.
mlm_backward ==
    /\ mlm_pc \in {"fwd", "bwd"}
    /\ \E d_output \in [1..Len(mlm_mask) -> [1..MLMWidth -> GradValues]] :
          /\ mlm_dout' = d_output
          /\ mlm_bpin' = [i \in 1..Len(mlm_mask) |-> [c \in 1..MLMWidth |->
                             d_output[i][c] * OneMinusMask(mlm_mask[i])]]
    /\ mlm_pc' = "bwd"
    /\ UNCHANGED <<mlm_docs, mlm_draws, mlm_mask, mlm_masked, mlm_rolls>>
    /\ UNCHANGED rwVars
    /\ UNCHANGED notMLM

MLMNext == mlm_forward \/ mlm_backward

\* C1: the gradient mlm_backward passes to the wrapped model's backward is
\* zero at every token position not selected for corruption (mask true,
\* draw >= mask_prob) and equal to the incoming gradient at every position
\* selected for corruption (mask false).
C1_GradientOnlyAtCorrupted ==
    mlm_pc = "bwd" =>
        /\ Len(mlm_bpin) = Len(mlm_draws)
        /\ \A i \in 1..Len(mlm_draws) :
              /\ mlm_mask[i] <=> (mlm_draws[i] >= MaskProb)
              /\ mlm_draws[i] >= MaskProb =>
                    \A c \in 1..MLMWidth : mlm_bpin[i][c] = 0
              /\ mlm_draws[i] < MaskProb => mlm_bpin[i] = mlm_dout[i]

\* A backward pass over a batch of two documents with one token kept and one
\* corrupted.
C1_Witness ==
    /\ mlm_pc = "bwd"
    /\ Len(mlm_docs) = 2
    /\ \E i, j \in 1..Len(mlm_mask) :
          /\ mlm_mask[i] /\ ~mlm_mask[j]
          /\ mlm_dout[i][1] # 0 /\ mlm_bpin[i][1] = 0
          /\ mlm_bpin[j][1] = mlm_dout[j][1] /\ mlm_bpin[j][1] # 0

\* A step that ends in "fwd" or "fwd_raised" and changes something is one
\* call of mlm_forward.
ForwardStep == mlm_pc' \in {"fwd", "fwd_raised"}

\* C11 (as stated): every forward pass of the wrapper builds a fresh sampler
\* before masking, so the sampler it leaves behind is one that served this
\* forward pass only.
C11_FreshSamplerEachForward ==
    [][ ForwardStep =>
           \E o \in ApplyMaskFrom(rw_words', rw_probs', FlatTokens(mlm_docs'),
                                  mlm_mask', mlm_rolls', 1, FreshRWState) :
               o.st = RWState' ]_vars

\* C11 (amended): the sampler is built once, when masked_language_model is
\* called; every forward pass of the wrapper uses that one sampler in the
\* state the earlier forward passes left it in (word list and probabilities
\* unchanged, cache and pre-drawn indices carried over).
C11_SamplerBuiltOncePerWrapper ==
    [][ ForwardStep =>
           /\ vocab' = vocab /\ rw_words' = rw_words /\ rw_probs' = rw_probs
           /\ rw_words = RWWords(vocab) /\ rw_probs = RWProbs(vocab)
           /\ \E o \in ApplyMaskFrom(rw_words, rw_probs, FlatTokens(mlm_docs'),
                                     mlm_mask', mlm_rolls', 1, RWState) :
                 o.st = RWState' ]_vars

\* The number of tokens of the last forward pass whose roll asked for a
\* random word.
RandomRolls ==
    Cardinality({ i \in 1..Len(mlm_rolls) :
                    mlm_rolls[i] >= MaskRoll /\ mlm_rolls[i] < RandomRoll })

\* A forward pass that drew one random word, served from the cache an earlier
\* forward pass of the same wrapper had filled.
C11_Witness ==
    /\ mlm_pc = "fwd"
    /\ RandomRolls = 1
    /\ rw_calls = 2
    /\ rw_refills = 1
    /\ rw_cache = <<>>

\* The position, in the batch-wide token count, of token k of document d.
TokenIndex(docs, d, k) == Len(FlatTokens(SubSeq(docs, 1, d - 1))) + k

\* C12: _apply_mask returns one new document per input document, in the same
\* order, with the same number of tokens and the same trailing-whitespace
\* flag at every position; a token whose mask value is true (draw >=
\* mask_prob) keeps its text, only tokens whose mask value is false are
\* handed to _replace_word, and the input documents are as they were given.
C12_MaskedDocsKeepLayout ==
    mlm_pc = "fwd" =>
        /\ mlm_docs \in MLMBatches
        /\ Len(mlm_masked) = Len(mlm_docs)
        /\ \A d \in 1..Len(mlm_docs) :
              /\ Len(mlm_masked[d]) = Len(mlm_docs[d])
              /\ \A k \in 1..Len(mlm_docs[d]) :
                    LET i == TokenIndex(mlm_docs, d, k)
                    IN  /\ mlm_masked[d][k].space = (mlm_docs[d][k].whitespace_ = " ")
                        /\ mlm_mask[i] <=> (mlm_draws[i] >= MaskProb)
                        /\ mlm_mask[i] =>
                              /\ mlm_masked[d][k].text = mlm_docs[d][k].text
                              /\ mlm_rolls[i] = NoRoll
                        /\ ~mlm_mask[i] => mlm_rolls[i] # NoRoll

\* A batch of two one-token documents with different whitespace: the first
\* token corrupted into the marker, the second kept.
C12_Witness ==
    /\ mlm_pc = "fwd"
    /\ Len(mlm_docs) = 2
    /\ Len(mlm_docs[1]) = 1 /\ Len(mlm_docs[2]) = 1
    /\ mlm_docs[1][1].whitespace_ # mlm_docs[2][1].whitespace_
    /\ ~mlm_mask[1] /\ mlm_mask[2]
    /\ mlm_masked[1][1].text = MASK
    /\ mlm_masked[2][1].text = mlm_docs[2][1].text

\* C13: for every corrupted token the result of _replace_word is decided by
\* its one roll: below 0.8 the marker [MASK]; from 0.8 and below 0.9 the word
\* of exactly one next() call; from 0.9 on the original word; the sampler is
\* consumed in the middle case only.
C13_RollDecidesReplacement ==
    [][ ForwardStep =>
          LET old    == FlatTokens(mlm_docs')
              new    == FlatTokens(mlm_masked')
              middle == { i \in 1..Len(mlm_rolls') :
                            mlm_rolls'[i] >= MaskRoll /\ mlm_rolls'[i] < RandomRoll }
          IN  /\ middle = {} => RWState' = RWState
              /\ mlm_pc' = "fwd" =>
                    /\ rw_calls' = rw_calls + Cardinality(middle)
                    /\ \A i \in 1..Len(mlm_rolls') :
                          mlm_rolls'[i] # NoRoll =>
                             /\ mlm_rolls'[i] < MaskRoll => new[i].text = MASK
                             /\ i \in middle => new[i].text \in Range(rw_words)
                             /\ mlm_rolls'[i] >= RandomRoll => new[i].text = old[i].text
                    /\ Cardinality(middle) = 1 =>
                          /\ RWState' \in NextOutcomes(rw_words, rw_probs, RWState)
                          /\ \A i \in middle : new[i].text = rw_out'
              /\ mlm_pc' = "fwd_raised" =>
                    /\ rw_err' # "none"
                    /\ rw_calls' > rw_calls
                    /\ rw_calls' <= rw_calls + Cardinality(middle) ]_vars

\* Two corrupted tokens in one forward pass: the first roll asked for a random
\* word, which one next() call supplied, the second left the word as it was.
C13_Witness ==
    /\ mlm_pc = "fwd"
    /\ Len(mlm_rolls) = 2
    /\ mlm_rolls[1] = MaskRoll /\ mlm_rolls[2] = RandomRoll
    /\ FlatTokens(mlm_masked)[1].text = rw_out
    /\ FlatTokens(mlm_masked)[1].text \in Range(rw_words)
    /\ FlatTokens(mlm_masked)[2].text = FlatTokens(mlm_docs)[2].text
    /\ rw_calls = 1

---------------------------------------------------------------------------
(* reapply                                                                 *)

MaxTimes == 3        \* n_times

RPInputs == {1, 2, 3}
RPGrads == {1, 2, 3}

\* The layers given to reapply: the identity (as print_shape) and the
\* elementwise square, each with a backward function that either returns a
\* new array or works on the array it was given and returns that array.
Layers == [fn : {"identity", "square"}, returns_arg : BOOLEAN]
NoLayer == [fn |-> "none", returns_arg |-> FALSE]

\* layer.begin_update(X): the output, and the backward function, which keeps
\* the input of its application.
LayerForward(layer, x) == IF layer.fn = "square" THEN x * x ELSE x
LayerBackward(layer, bp, g) == IF layer.fn = "square" THEN 2 * bp.x * g ELSE g

\* The loop of reapply_fwd, from iteration i on.  bound says whether the
\* local variable Y has been assigned.
RECURSIVE FwdLoop(_, _, _, _)
FwdLoop(layer, n, i, st) ==
    IF i > n THEN st
    ELSE LET y == LayerForward(layer, st.X)
         IN  FwdLoop(layer, n, i + 1,
                     [X         |-> y,
                      Y         |-> y,
                      bound     |-> TRUE,
                      log       |-> Append(st.log, [x |-> st.X, y |-> y]),
                      backprops |-> Append(st.backprops, [app |-> i, x |-> st.X])])

\* reversed(backprops)
Reversed(s) == [i \in 1..Len(s) |-> s[Len(s) + 1 - i]]

NoObj == 0           \* dX = None

\* The loop of reapply_bwd over the list bps, from its element k on.  Arrays
\* are objects: heap[o] is the value of array o, dY and dX name the arrays the
\* local variables are bound to.  "dX = dY" binds dX to the array dY names,
\* "dX += dY" adds in place to the array dX names.
RECURSIVE BwdLoop(_, _, _, _)
BwdLoop(layer, bps, k, st) ==
    IF k > Len(bps) THEN st
    ELSE LET arg   == st.heap[st.dY]
             res   == LayerBackward(layer, bps[k], arg)
             heap1 == IF layer.returns_arg
                         THEN [st.heap EXCEPT ![st.dY] = res]
                         ELSE Append(st.heap, res)
             dY1   == IF layer.returns_arg THEN st.dY ELSE Len(heap1)
             heap2 == IF st.dX = NoObj
                         THEN heap1
                         ELSE [heap1 EXCEPT ![st.dX] = heap1[st.dX] + heap1[dY1]]
             dX1   == IF st.dX = NoObj THEN dY1 ELSE st.dX
         IN  BwdLoop(layer, bps, k + 1,
                     [heap |-> heap2, dY |-> dY1, dX |-> dX1,
                      log  |-> Append(st.log,
                                 [app |-> bps[k].app, arg |-> arg, result |-> res])])

RPIdle ==
    /\ rp_layer = NoLayer /\ rp_n = 0 /\ rp_pc = "idle"
    /\ rp_X = 0 /\ rp_Y = 0 /\ rp_fwdlog = <<>> /\ rp_backprops = <<>>
    /\ rp_dY = 0 /\ rp_bwdlog = <<>> /\ rp_heap = <<>> /\ rp_dX = 0

\* reapply(layer, n_times)
RPInit ==
    /\ rp_layer \in Layers
    /\ rp_n \in 0..MaxTimes
    /\ rp_pc = "idle"
    /\ rp_X = 0 /\ rp_Y = 0 /\ rp_fwdlog = <<>> /\ rp_backprops = <<>>
    /\ rp_dY = 0 /\ rp_bwdlog = <<>> /\ rp_heap = <<>> /\ rp_dX = 0

\* reapply_fwd(X).  With n_times = 0 the loop body never runs and
\* "return Y, reapply_bwd" raises UnboundLocalError.
reapply_fwd ==
    /\ \E X \in RPInputs :
         LET st == FwdLoop(rp_layer, rp_n, 1,
                           [X |-> X, Y |-> 0, bound |-> FALSE,
                            log |-> <<>>, backprops |-> <<>>])
         IN  /\ rp_X' = X
             /\ rp_fwdlog' = st.log
             /\ rp_backprops' = st.backprops
             /\ rp_Y' = st.Y
             /\ rp_pc' = IF st.bound THEN "fwd" ELSE "fwd_raised"
    /\ rp_dY' = 0 /\ rp_bwdlog' = <<>> /\ rp_heap' = <<>> /\ rp_dX' = 0
    /\ UNCHANGED <<rp_layer, rp_n>>
    /\ UNCHANGED notRP

\* reapply_bwd(dY) of the last reapply_fwd, called without an optimizer.
reapply_bwd ==
    /\ rp_pc \in {"fwd", "bwd"}
    /\ \E dY \in RPGrads :
         LET st == BwdLoop(rp_layer, Reversed(rp_backprops), 1,
                           [heap |-> <<dY>>, dY |-> 1, dX |-> NoObj, log |-> <<>>])
         IN  /\ rp_dY' = dY
             /\ rp_bwdlog' = st.log
             /\ rp_heap' = st.heap
             /\ rp_dX' = st.heap[st.dX]
    /\ rp_pc' = "bwd"
    /\ UNCHANGED <<rp_layer, rp_n, rp_X, rp_Y, rp_fwdlog, rp_backprops>>
    /\ UNCHANGED notRP

RPNext == reapply_fwd \/ reapply_bwd

\* C14: for n_times >= 1 the forward pass calls the layer exactly n_times,
\* each call on the previous call's output, and records the backward
\* functions in call order; the combined backward calls each of them once,
\* in reverse order, each on the previous backward call's result (the first
\* on the incoming gradient), and returns the sum of the results of all the
\* backward calls.
C14_ReplaysInReverseAndSums ==
    (rp_pc = "bwd" /\ rp_n >= 1) =>
        /\ Len(rp_fwdlog) = rp_n
        /\ rp_fwdlog[1].x = rp_X
        /\ \A i \in 1..(rp_n - 1) : rp_fwdlog[i + 1].x = rp_fwdlog[i].y
        /\ rp_Y = rp_fwdlog[rp_n].y
        /\ Len(rp_backprops) = rp_n
        /\ \A i \in 1..rp_n : rp_backprops[i] = [app |-> i, x |-> rp_fwdlog[i].x]
        /\ Len(rp_bwdlog) = rp_n
        /\ \A j \in 1..rp_n : rp_bwdlog[j].app = rp_n + 1 - j
        /\ rp_bwdlog[1].arg = rp_dY
        /\ \A j \in 1..(rp_n - 1) : rp_bwdlog[j + 1].arg = rp_bwdlog[j].result
        /\ rp_dX = SumSeq([j \in 1..rp_n |-> rp_bwdlog[j].result])

---------------------------------------------------------------------------
(* Specifications: one per component.                                      *)

InitLink == LinkInit /\ GCIdle /\ FLIdle /\ TGIdle /\ PAIdle /\ RWIdle /\ MLMIdle /\ RPIdle
SpecLink == InitLink /\ [][LinkNext]_vars

InitGetCol == GCInit /\ LinkIdle /\ FLIdle /\ TGIdle /\ PAIdle /\ RWIdle /\ MLMIdle /\ RPIdle
SpecGetCol == InitGetCol /\ [][GCNext]_vars

InitFlatten == FLInit /\ LinkIdle /\ GCIdle /\ TGIdle /\ PAIdle /\ RWIdle /\ MLMIdle /\ RPIdle
SpecFlatten == InitFlatten /\ [][FLNext]_vars

InitTagger == TGInit /\ LinkIdle /\ GCIdle /\ FLIdle /\ PAIdle /\ RWIdle /\ MLMIdle /\ RPIdle
SpecTagger == InitTagger /\ [][TGNext]_vars

InitPA == PAInit /\ LinkIdle /\ GCIdle /\ FLIdle /\ TGIdle /\ RWIdle /\ MLMIdle /\ RPIdle
SpecPA == InitPA /\ [][PANext]_vars
SpecPABackward == InitPA /\ [][PABackNext]_vars


InitRW == RWInit /\ MLMIdle /\ LinkIdle /\ GCIdle /\ FLIdle /\ TGIdle /\ PAIdle /\ RPIdle
SpecRW == InitRW /\ [][RWNext]_vars

InitMLM == MLMInit /\ LinkIdle /\ GCIdle /\ FLIdle /\ TGIdle /\ PAIdle /\ RPIdle
SpecMLM == InitMLM /\ [][MLMNext]_vars

InitReapply == RPInit /\ LinkIdle /\ GCIdle /\ FLIdle /\ TGIdle /\ PAIdle /\ RWIdle /\ MLMIdle
SpecReapply == InitReapply /\ [][RPNext]_vars

===========================================================================
